---- MODULE Spec2Model ----
(***************************************************************************)
(* Delongify (malekoa/dlgfy_api): a URL shortener built on Fiber and       *)
(* MongoDB.  The repository holds three revisions of the program:          *)
(*   "mainA"   src/main.go lines 1-178      (url.Parse inline, default     *)
(*             scheme http, no liveness check, retention 5 days)           *)
(*   "mainB"   src/main.go lines 180-347    (assertProtocol that drops the *)
(*             parse error, isValidURL, retention 5 minutes)               *)
(*   "part000" src/unnamed/part_000         (assertProtocol returning the  *)
(*             parse error, isValidURL, retention 5 days)                  *)
(* The revision that runs is fixed when the process starts.  Strings that  *)
(* the code parses are sequences of one-character strings, so that         *)
(* net/url's Parse and String are computed and not assumed.  Requests are  *)
(* those that reached a route handler (the limiter middleware is an opaque *)
(* library that answers some requests itself).                             *)
(***************************************************************************)
EXTENDS Integers, Sequences, FiniteSets, TLC

VARIABLES variant, alive, now, ticks, collection, ttlIndex, req,
          insertedSlugs

vars == <<variant, alive, now, ticks, collection, ttlIndex, req,
          insertedSlugs>>

\* ------------------------------------------------------------- bounds
MaxReq == 2
MaxRaceReq == 3
MaxNormReq == 2
MaxSlug == 2
MaxTicks == 1

Variants == {"mainA", "mainB", "part000"}
Reqs == 1..MaxReq
RaceReqs == 1..MaxRaceReq
NormReqs == 1..MaxNormReq
AllReqs == Reqs \cup RaceReqs \cup NormReqs
Slugs == 1..MaxSlug

\* Retention windows, in minutes.
FiveDays == 7200
FiveMinutes == 5

Retention(v) == IF v = "mainB" THEN FiveMinutes ELSE FiveDays

\* ------------------------------------------------ strings as sequences
LetterChars == {"a", "b", "f", "h", "p", "s", "t", "H"}
DigitChars == {"8"}
HexChars == {"a", "b", "f", "8"}

ToLowerChar(c) == IF c = "H" THEN "h" ELSE c

ToLower(str) == [i \in 1..Len(str) |-> ToLowerChar(str[i])]

HasPrefix(str, p) == Len(str) >= Len(p) /\ SubSeq(str, 1, Len(p)) = p

\* strings.Index for a one-character needle: 0 when absent (Go: -1).
IndexOf(str, c) ==
    IF \E i \in 1..Len(str) : str[i] = c
    THEN CHOOSE i \in 1..Len(str) :
             str[i] = c /\ \A j \in 1..(i - 1) : str[j] # c
    ELSE 0

LastIndexOf(str, c) ==
    IF \E i \in 1..Len(str) : str[i] = c
    THEN CHOOSE i \in 1..Len(str) :
             str[i] = c /\ \A j \in (i + 1)..Len(str) : str[j] # c
    ELSE 0

Drop(str, n) == SubSeq(str, n + 1, Len(str))

Take(str, n) == SubSeq(str, 1, n)

\* ------------------------------------------------------------ net/url
\* getScheme: the prefix up to the first ':' when it is made of letters, and
\* of digits, '+', '-', '.' after the first character.
RECURSIVE getSchemeFrom(_, _)
getSchemeFrom(raw, i) ==
    IF i > Len(raw) THEN [scheme |-> <<>>, rest |-> raw, err |-> FALSE]
    ELSE IF raw[i] \in LetterChars THEN getSchemeFrom(raw, i + 1)
    ELSE IF raw[i] \in DigitChars
         THEN IF i = 1 THEN [scheme |-> <<>>, rest |-> raw, err |-> FALSE]
              ELSE getSchemeFrom(raw, i + 1)
    ELSE IF raw[i] = ":"
         THEN IF i = 1 THEN [scheme |-> <<>>, rest |-> <<>>, err |-> TRUE]
              ELSE [scheme |-> Take(raw, i - 1), rest |-> Drop(raw, i),
                    err |-> FALSE]
    ELSE [scheme |-> <<>>, rest |-> raw, err |-> FALSE]

getScheme(raw) == getSchemeFrom(raw, 1)

\* unescape's validity test: every '%' is followed by two hex digits.
ValidEscapes(str) ==
    \A i \in 1..Len(str) :
        str[i] = "%" =>
            /\ i + 2 <= Len(str)
            /\ str[i + 1] \in HexChars
            /\ str[i + 2] \in HexChars

\* validOptionalPort: "" or ':' followed by digits only.
validOptionalPort(port) ==
    \/ port = <<>>
    \/ /\ port[1] = ":"
       /\ \A i \in 2..Len(port) : port[i] \in DigitChars

\* parseHost (no IPv6 literal among the inputs): the port after the last ':'
\* must be numeric, and the escapes must be valid.
HostError(host) ==
    LET i == LastIndexOf(host, ":")
    IN  \/ i # 0 /\ ~validOptionalPort(Drop(host, i - 1))
        \/ ~ValidEscapes(host)

NoURL == [err |-> TRUE, Scheme |-> <<>>, Opaque |-> <<>>, Host |-> <<>>,
          Path |-> <<>>, OmitHost |-> FALSE]

\* url.Parse on inputs without '?', '#', '@' and control bytes.
Parse(raw) ==
    LET gs == getScheme(raw)
        scheme == ToLower(gs.scheme)
        rest == gs.rest
        seg == IF IndexOf(rest, "/") = 0 THEN rest
               ELSE Take(rest, IndexOf(rest, "/") - 1)
        ok(o, h, p, omit) == [err |-> FALSE, Scheme |-> scheme, Opaque |-> o,
                              Host |-> h, Path |-> p, OmitHost |-> omit]
    IN  IF gs.err THEN NoURL
        ELSE IF ~HasPrefix(rest, <<"/">>) /\ scheme # <<>>
             THEN ok(rest, <<>>, <<>>, FALSE)
        ELSE IF ~HasPrefix(rest, <<"/">>) /\ IndexOf(seg, ":") # 0
             THEN NoURL
        ELSE IF /\ HasPrefix(rest, <<"/", "/">>)
                /\ (scheme # <<>> \/ ~HasPrefix(rest, <<"/", "/", "/">>))
             THEN LET auth0 == Drop(rest, 2)
                      k == IndexOf(auth0, "/")
                      authority == IF k = 0 THEN auth0 ELSE Take(auth0, k - 1)
                      path == IF k = 0 THEN <<>> ELSE Drop(auth0, k - 1)
                  IN  IF HostError(authority) \/ ~ValidEscapes(path)
                      THEN NoURL
                      ELSE ok(<<>>, authority, path, FALSE)
        ELSE IF ~ValidEscapes(rest) THEN NoURL
        ELSE ok(<<>>, <<>>, rest, scheme # <<>> /\ HasPrefix(rest, <<"/">>))

\* (*URL).String for a URL without user, query and fragment.
String(u) ==
    LET head == IF u.Scheme # <<>> THEN u.Scheme \o <<":">> ELSE <<>>
        slashes == IF /\ (u.Scheme # <<>> \/ u.Host # <<>>)
                      /\ ~(u.OmitHost /\ u.Host = <<>>)
                      /\ (u.Host # <<>> \/ u.Path # <<>>)
                   THEN <<"/", "/">> \o u.Host
                   ELSE <<>>
        sep == IF u.Path # <<>> /\ u.Path[1] # "/" /\ u.Host # <<>>
               THEN <<"/">> ELSE <<>>
        seg == IF IndexOf(u.Path, "/") = 0 THEN u.Path
               ELSE Take(u.Path, IndexOf(u.Path, "/") - 1)
        dot == IF head = <<>> /\ slashes = <<>> /\ sep = <<>>
                  /\ IndexOf(seg, ":") # 0
               THEN <<".", "/">> ELSE <<>>
    IN  IF u.Opaque # <<>> THEN head \o u.Opaque
        ELSE head \o slashes \o sep \o dot \o u.Path

Http == <<"h", "t", "t", "p">>
Https == <<"h", "t", "t", "p", "s">>

\* ------------------------------------------------------ URL normalizers
\* src/main.go 121-131 and 139: url.Parse, default scheme http only when the
\* scheme is empty, url.String().
normalizeInline(raw) ==
    LET u == Parse(raw)
    IN  IF u.err THEN [err |-> TRUE, panic |-> FALSE, val |-> <<>>]
        ELSE [err |-> FALSE, panic |-> FALSE,
              val |-> String([u EXCEPT !.Scheme =
                                  IF @ = <<>> THEN Http ELSE @])]

\* src/unnamed/part_000 76-86.
assertProtocol(raw) ==
    LET u == Parse(raw)
    IN  IF u.err THEN [err |-> TRUE, panic |-> FALSE, val |-> <<>>]
        ELSE [err |-> FALSE, panic |-> FALSE,
              val |-> String([u EXCEPT !.Scheme =
                                  IF @ # Http /\ @ # Https THEN Https ELSE @])]

\* src/main.go 253-260: the parse error is dropped, and u.Scheme is read
\* through the nil *URL that url.Parse returns with an error.
assertProtocolOld(raw) ==
    LET u == Parse(raw)
    IN  IF u.err THEN [err |-> FALSE, panic |-> TRUE, val |-> <<>>]
        ELSE [err |-> FALSE, panic |-> FALSE,
              val |-> String([u EXCEPT !.Scheme =
                                  IF @ # Http /\ @ # Https THEN Https ELSE @])]

\* isValidURL: http.Get fails without a network round trip on a URL that does
\* not parse, has another scheme than http/https, or has no host; otherwise
\* the network (net) decides.
isValidURL(str, net) ==
    LET u == Parse(str)
    IN  /\ ~u.err
        /\ u.Scheme \in {Http, Https}
        /\ u.Host # <<>>
        /\ net

\* What the creation handler makes of a parsed body, up to the call of
\* generateUniqueSlug: "bad" (400), "panic" (nil dereference, no recover
\* middleware: the process ends) or "ok" with the URL to store.
Normalize(v, raw, net) ==
    LET n == IF v = "mainA" THEN normalizeInline(raw)
             ELSE IF v = "mainB" THEN assertProtocolOld(raw)
             ELSE assertProtocol(raw)
    IN  IF n.panic THEN [out |-> "panic", val |-> <<>>]
        ELSE IF n.err THEN [out |-> "bad", val |-> <<>>]
        ELSE IF v # "mainA" /\ ~isValidURL(n.val, net)
             THEN [out |-> "bad", val |-> <<>>]
        ELSE [out |-> "ok", val |-> n.val]

\* ------------------------------------------------------------- inputs
\* A request body: parsed by BodyParser (ok) into the url field, or not.
BadBody == [ok |-> FALSE, url |-> <<>>]

Body(str) == [ok |-> TRUE, url |-> str]

UrlHttpA == <<"h", "t", "t", "p", ":", "/", "/", "a">>
UrlBareB == <<"b">>

\* Bodies of the concurrent specification: two URLs every revision accepts.
ConcBodies == {Body(UrlHttpA), Body(UrlBareB)}

UrlInputs ==
    { UrlHttpA,
      UrlBareB,
      <<"h", "t", "t", "p", "s", ":", "/", "/", "b">>,
      <<"H", "t", "t", "p", ":", "/", "/", "a">>,
      <<"f", "t", "p", ":", "/", "/", "a">>,
      <<"a", ":", "8">>,
      <<>>,
      <<"/", "/", "a", "/", "b">>,
      <<"/", "a">>,
      <<":", "/", "/", "a">>,
      <<"%">>,
      <<"h", "t", "t", "p", ":", "/", "/", "a", ":", "b">>,
      <<"8", "a", ":", "b">> }

AllBodies == {BadBody} \cup {Body(x) : x \in UrlInputs}

\* ------------------------------------------------------------- state
\* A request: pc is the handler's position; err is the result of its last
\* FindOne (the redirect handler's err; generateUniqueSlug's err, kept until
\* the slug it returned is inserted); herr is the creation handler's err after
\* InsertOne and createTTLIndex; gens counts its calls of generateRandomString.
NoDoc == [id |-> 0, slug |-> 0, url |-> <<>>, expireAt |-> 0]

IdleReq == [pc |-> "idle", kind |-> "none", body |-> BadBody, slugParam |-> 0,
            s |-> 0, err |-> "none", herr |-> "none", url |-> <<>>, expireAt |-> 0,
            status |-> 0, location |-> <<>>, gens |-> 0]

Init ==
    /\ variant \in Variants
    /\ alive = TRUE
    /\ now = 0
    /\ ticks = 0
    /\ collection = {}
    /\ ttlIndex = FALSE
    /\ req = [r \in AllReqs |-> IdleReq]
    /\ insertedSlugs = {}

\* Requests are numbered in the order in which their handlers start.
CanStart(r) ==
    /\ alive
    /\ req[r].pc = "idle"
    /\ \A q \in 1..(r - 1) : req[q].pc # "idle"

Matching(slug) == {d \in collection : d.slug = slug}

\* The outcomes of a database operation: it succeeds, or the driver returns
\* an error.
DbOutcomes == BOOLEAN

\* A database that answers every operation.
DbAnswers == {TRUE}

\* Collection.FindOne by slug: nil with a matching document (which one of
\* several is the server's choice), ErrNoDocuments without, or a driver error
\* (with FALSE among the outcomes D).
FindOutcomes(slug, D) ==
    (IF FALSE \in D THEN {[err |-> "dbError", doc |-> NoDoc]} ELSE {})
    \cup (IF Matching(slug) = {}
          THEN {[err |-> "ErrNoDocuments", doc |-> NoDoc]}
          ELSE {[err |-> "nil", doc |-> d] : d \in Matching(slug)})

\* ------------------------------------------- POST /createSlugURLPair
\* BodyParser, the normalizer, and generateRandomString(5), the first
\* statement of generateUniqueSlug: all local to the request.
PostBegin(r, B) ==
    /\ CanStart(r)
    /\ \E b \in B, net \in BOOLEAN, c \in Slugs :
         LET n == Normalize(variant, b.url, net)
             started == [req[r] EXCEPT !.kind = "post", !.body = b]
         IN  IF ~b.ok \/ n.out = "bad"
             THEN /\ req' = [req EXCEPT ![r] =
                        [started EXCEPT !.pc = "done", !.status = 400]]
                  /\ alive' = alive
             ELSE IF n.out = "panic"
             THEN /\ req' = [req EXCEPT ![r] = [started EXCEPT !.pc = "fatal"]]
                  /\ alive' = FALSE
             ELSE /\ req' = [req EXCEPT ![r] =
                        [started EXCEPT !.pc = "find", !.url = n.val,
                                        !.s = c, !.gens = 1]]
                  /\ alive' = alive
    /\ UNCHANGED <<variant, now, ticks, collection, ttlIndex,
                   insertedSlugs>>

\* generateUniqueSlug, line 48: the first lookup of the candidate.
FindSlug(r, D) ==
    /\ alive
    /\ req[r].pc = "find"
    /\ \E o \in FindOutcomes(req[r].s, D) :
         req' = [req EXCEPT ![r] =
                    [@ EXCEPT !.pc = "loopTest", !.err = o.err]]
    /\ UNCHANGED <<variant, alive, now, ticks, collection, ttlIndex,
                   insertedSlugs>>

\* generateUniqueSlug, line 49: for err == nil; on exit the handler reads the
\* clock for expireAt (line 137).
LoopTest(r) ==
    /\ alive
    /\ req[r].pc = "loopTest"
    /\ req' = [req EXCEPT ![r] =
                 IF @.err = "nil"
                 THEN [@ EXCEPT !.pc = "loopFind"]
                 ELSE [@ EXCEPT !.pc = "insert",
                                !.expireAt = now + Retention(variant)]]
    /\ UNCHANGED <<variant, alive, now, ticks, collection, ttlIndex,
                   insertedSlugs>>

\* generateUniqueSlug, line 50: the loop body looks the same s up again.
LoopFind(r, D) ==
    /\ alive
    /\ req[r].pc = "loopFind"
    /\ \E o \in FindOutcomes(req[r].s, D) :
         req' = [req EXCEPT ![r] =
                    [@ EXCEPT !.pc = "loopTest", !.err = o.err]]
    /\ UNCHANGED <<variant, alive, now, ticks, collection, ttlIndex,
                   insertedSlugs>>

DocOf(r) == [id |-> r, slug |-> req[r].s, url |-> req[r].url,
             expireAt |-> req[r].expireAt]

\* The insert written as an upsert keyed on slug.
InsertedUpsert(coll, doc) == {d \in coll : d.slug # doc.slug} \cup {doc}

\* Collection.InsertOne: the document is added under a fresh _id; no index
\* makes slug unique.
Inserted(coll, doc) == coll \cup {doc}

\* Lines 141-144: InsertOne, log.Fatal on error.
InsertOne(r, D) ==
    /\ alive
    /\ req[r].pc = "insert"
    /\ \E ok \in D :
         IF ok
         THEN /\ collection' = Inserted(collection, DocOf(r))
              /\ insertedSlugs' = insertedSlugs \cup {req[r].s}
              /\ req' = [req EXCEPT ![r] =
                            [@ EXCEPT !.pc = "index", !.herr = "nil",
                                      !.err = "none"]]
              /\ alive' = alive
         ELSE /\ req' = [req EXCEPT ![r] =
                            [@ EXCEPT !.pc = "fatal", !.herr = "insertError"]]
              /\ alive' = FALSE
              /\ UNCHANGED <<collection, insertedSlugs>>
    /\ UNCHANGED <<variant, now, ticks, ttlIndex>>

\* createTTLIndex without its log.Panic, its error dropped by the caller.
createTTLIndexSwallowed(ok) == "ok"

\* createTTLIndex's result for the handler: "ok", or "panic" (log.Panic on a
\* CreateOne error; the return of err after it is never reached).
createTTLIndex(ok) == IF ok THEN "ok" ELSE "panic"

\* Lines 146-153: createTTLIndex, then the 200 response.
CreateIndex(r, D) ==
    /\ alive
    /\ req[r].pc = "index"
    /\ \E ok \in D :
         IF createTTLIndex(ok) = "ok"
         THEN /\ ttlIndex' = (ttlIndex \/ ok)
              /\ req' = [req EXCEPT ![r] =
                            [@ EXCEPT !.pc = "done", !.status = 200,
                                      !.herr = IF ok THEN "nil"
                                               ELSE "indexError"]]
              /\ alive' = alive
         ELSE /\ req' = [req EXCEPT ![r] =
                            [@ EXCEPT !.pc = "fatal", !.herr = "indexError"]]
              /\ alive' = FALSE
              /\ UNCHANGED ttlIndex
    /\ UNCHANGED <<variant, now, ticks, collection, insertedSlugs>>

\* ---------------------------------------------------------- GET /:slug
\* The handler without its err != nil branch.
GetResponseNoErrCheck(o) == [status |-> 302, location |-> o.doc.url]

\* The response to the lookup: 404 on any error, else a 302 to result.Url.
GetResponse(o) ==
    IF o.err # "nil" THEN [status |-> 404, location |-> <<>>]
    ELSE [status |-> 302, location |-> o.doc.url]

GetSlug(r, D) ==
    /\ CanStart(r)
    /\ \E p \in Slugs :
         \E o \in FindOutcomes(p, D) :
            req' = [req EXCEPT ![r] =
                      [@ EXCEPT !.pc = "done", !.kind = "get",
                                !.slugParam = p, !.err = o.err,
                                !.status = GetResponse(o).status,
                                !.location = GetResponse(o).location]]
    /\ UNCHANGED <<variant, alive, now, ticks, collection, ttlIndex,
                   insertedSlugs>>

\* --------------------------------------------------------------- GET /
RootGet(r) ==
    /\ CanStart(r)
    /\ req' = [req EXCEPT ![r] =
                 [@ EXCEPT !.pc = "done", !.kind = "root", !.status = 200]]
    /\ UNCHANGED <<variant, alive, now, ticks, collection, ttlIndex,
                   insertedSlugs>>

\* ------------------------------------------------- clock and storage
\* The clock, observed at steps of one retention window and a minute.
TickStep(v) == Retention(v) + 1

Tick ==
    /\ ticks < MaxTicks
    /\ now' = now + TickStep(variant)
    /\ ticks' = ticks + 1
    /\ UNCHANGED <<variant, alive, collection, ttlIndex, req,
                   insertedSlugs>>

\* The documents the TTL monitor may delete: expireAfterSeconds 0 on expireAt.
Expired(coll, t) == {d \in coll : d.expireAt < t}

\* MongoDB's TTL monitor, once the index exists; it outlives the process.
TTLDelete ==
    /\ ttlIndex
    /\ \E d \in Expired(collection, now) : collection' = collection \ {d}
    /\ UNCHANGED <<variant, alive, now, ticks, ttlIndex, req,
                   insertedSlugs>>

\* ------------------------------------------------------ specifications
Step(r, B, D) ==
    \/ PostBegin(r, B)
    \/ FindSlug(r, D)
    \/ LoopTest(r)
    \/ LoopFind(r, D)
    \/ InsertOne(r, D)
    \/ CreateIndex(r, D)
    \/ GetSlug(r, D)
    \/ RootGet(r)

Next ==
    \/ \E r \in Reqs : Step(r, ConcBodies, DbOutcomes)
    \/ Tick
    \/ TTLDelete

\* Two concurrent requests, two URLs.
Spec == Init /\ [][Next]_vars

RaceNext ==
    \/ \E r \in RaceReqs : Step(r, ConcBodies, DbAnswers)
    \/ Tick
    \/ TTLDelete

\* Three concurrent requests, two URLs, a database that answers.
RaceSpec == Init /\ [][RaceNext]_vars

NormNext ==
    \/ \E r \in NormReqs : Step(r, AllBodies, DbOutcomes)
    \/ Tick
    \/ TTLDelete

\* One request at a time, every body of AllBodies.
NormSpec == Init /\ [][NormNext]_vars

\* The steps of a creation request that its handler goroutine takes by
\* itself once the request has started.
Progress(r) ==
    \/ FindSlug(r, DbOutcomes)
    \/ LoopTest(r)
    \/ LoopFind(r, DbOutcomes)
    \/ InsertOne(r, DbOutcomes)
    \/ CreateIndex(r, DbOutcomes)

\* Every handler goroutine that can take a step eventually takes one, and
\* the TTL monitor deletes what it may delete; no client has to send a
\* request, and time is not forced to pass.
LiveSpec ==
    /\ Spec
    /\ \A r \in Reqs : WF_vars(Progress(r))
    /\ WF_vars(TTLDelete)

\* ------------------------------------------------------------- claims
GetStep(g) == req[g].pc = "idle" /\ req'[g].kind = "get"

PostStart(r) == req[r].pc = "idle" /\ req'[r].kind = "post"

Created(p) == req[p].kind = "post" /\ req[p].pc = "done" /\ req[p].status = 200

\* C1: a GET on the slug of a creation request that was answered 200, handled
\* while that request's record is stored and answered by the database, is a
\* 302 to exactly that request's URL.
C1_RedirectsToCreatedUrl ==
    [][\A g \in RaceReqs, p \in RaceReqs :
          ( /\ GetStep(g)
            /\ Created(p)
            /\ DocOf(p) \in collection
            /\ req'[g].slugParam = req[p].s
            /\ req'[g].err # "dbError" )
          => /\ req'[g].status = 302
             /\ req'[g].location = req[p].url]_vars

\* C2: when the creation handler inserts slug s after the generator's lookup
\* reported it absent, no record with slug s is in the collection.
C2_SlugAbsentAtInsert ==
    [][\A r \in Reqs :
          ( /\ req[r].pc = "insert"
            /\ req'[r].pc = "index"
            /\ req[r].err = "ErrNoDocuments" )
          => Matching(req[r].s) = {}]_vars

\* C3: a GET on the slug of a stored record whose expireAt has passed is
\* answered 404, whether or not the TTL monitor has removed the record.
C3_ExpiredSlugIs404 ==
    [][\A g \in Reqs :
          ( /\ GetStep(g)
            /\ \E d \in collection :
                  d.slug = req'[g].slugParam /\ d.expireAt < now )
          => req'[g].status = 404]_vars

HttpPrefix == Http \o <<":", "/", "/">>
HttpsPrefix == Https \o <<":", "/", "/">>

\* C4: the url of every record of the collection begins with http:// or
\* https://.
C4_StoredUrlHasHttpScheme ==
    \A d \in collection :
        HasPrefix(d.url, HttpPrefix) \/ HasPrefix(d.url, HttpsPrefix)

\* C5: a creation request whose body does not parse, or whose URL url.Parse
\* rejects, is answered 400, changes neither the collection nor the index,
\* and leaves the process serving.
C5_BadInputIs400 ==
    [][\A r \in NormReqs :
          ( /\ PostStart(r)
            /\ (~req'[r].body.ok \/ Parse(req'[r].body.url).err) )
          => /\ req'[r].pc = "done"
             /\ req'[r].status = 400
             /\ collection' = collection
             /\ ttlIndex' = ttlIndex
             /\ alive']_vars

\* C6: a GET on a slug that no creation request has inserted is answered 404
\* and carries no redirect target.
C6_UnknownSlugIs404 ==
    \A g \in Reqs :
        ( /\ req[g].kind = "get"
          /\ req[g].pc = "done"
          /\ req[g].slugParam \notin insertedSlugs )
        => req[g].status = 404 /\ req[g].location = <<>>

C6_Witness ==
    \E g \in Reqs :
        /\ req[g].kind = "get"
        /\ req[g].pc = "done"
        /\ req[g].err = "ErrNoDocuments"
        /\ req[g].slugParam \notin insertedSlugs
        /\ req[g].status = 404
        /\ collection # {}

\* C7: in generateUniqueSlug every lookup of the loop body is made for a
\* candidate generated since the lookup that found a record.
C7_LoopRegenerates ==
    [][\A r \in Reqs :
          (req[r].pc = "loopFind" /\ req'[r].pc = "loopTest")
          => req'[r].gens > req[r].gens]_vars

\* C8: a creation request that has entered generateUniqueSlug eventually
\* gets its response, unless the process has terminated.
C8_CreationCompletes ==
    \A r \in Reqs :
        (req[r].pc = "find") ~> (req[r].pc = "done" \/ ~alive)

\* C9: a record leaves the collection only by the TTL monitor's deletion
\* after its expireAt has passed, in a step that serves no request; a record
\* enters it only by a creation request's insert, one at a time and with every
\* stored record kept as it is; no other step changes the collection.
C9_RecordsImmutable ==
    [][/\ \A d \in collection \ collection' :
             d.expireAt < now /\ ttlIndex /\ req' = req
       /\ \A d \in collection' \ collection :
             /\ collection \subseteq collection'
             /\ collection' \ collection = {d}
             /\ \E r \in Reqs :
                   /\ req[r].pc = "insert"
                   /\ req'[r].pc = "index"
                   /\ d = DocOf(r)
       /\ \A r \in Reqs :
             (req'[r] # req[r] /\ req[r].pc # "insert")
             => collection' = collection]_vars

C9_Witness ==
    /\ \E g \in Reqs :
          req[g].kind = "get" /\ req[g].pc = "done" /\ req[g].status = 302
    /\ \E p \in Reqs : Created(p) /\ DocOf(p) \notin collection

\* C10: a request whose insert or index creation failed has no response and
\* the process is terminated; a terminated process serves no request; the
\* failing step leaves the collection as it is, so a record inserted before a
\* failed index creation stays.
C10_PersistenceFailureIsFatal ==
    /\ [](\A r \in Reqs :
            req[r].herr \in {"insertError", "indexError"}
            => ~alive /\ req[r].pc = "fatal" /\ req[r].status = 0)
    /\ [][/\ ~alive => (req' = req /\ ~alive')
          /\ \A r \in Reqs :
                (req'[r].pc = "fatal" /\ req[r].pc # "fatal")
                => collection' = collection /\ ~alive']_vars

C10_Witness ==
    \E r \in Reqs, q \in Reqs :
        /\ req[r].herr = "indexError"
        /\ ~alive
        /\ DocOf(r) \in collection
        /\ req[q].pc \in {"find", "loopTest", "loopFind", "insert", "index"}

====
